---------------------------- MODULE Spec2Model ----------------------------
(***************************************************************************)
(* Model of the DL-RAG-Assistant repository:                               *)
(*   src/src/build_database.py  the offline build of the vector database   *)
(*   src/src/rag_system.py      RAGSystem: load_database, setup_qa_chain,  *)
(*                              initialize, ask                            *)
(*   src/src/mcq_generator.py   MCQGenerator.generate_quiz                 *)
(*                                                                         *)
(* Text is a sequence of one-character strings.  A path is a sequence of   *)
(* its components.  The persisted index is the pair of files FAISS keeps   *)
(* in the index directory (index.faiss, index.pkl).                        *)
(***************************************************************************)
EXTENDS Integers, Sequences, FiniteSets, TLC

(***************************************************************************)
(* Text helpers                                                            *)
(***************************************************************************)
NL == "\n"
SP == " "
TAB == "\t"

\* the characters str.strip() removes
Whitespace == {SP, NL, TAB}

Rep(c, n) == [i \in 1..n |-> c]

\* Python's s[:n]
Take(s, n) == SubSeq(s, 1, IF Len(s) < n THEN Len(s) ELSE n)

\* Python's str.strip()
Strip(t) ==
    IF \A i \in 1..Len(t) : t[i] \in Whitespace
    THEN <<>>
    ELSE LET first == CHOOSE i \in 1..Len(t) :
                          /\ t[i] \notin Whitespace
                          /\ \A j \in 1..(i - 1) : t[j] \in Whitespace
             last  == CHOOSE i \in 1..Len(t) :
                          /\ t[i] \notin Whitespace
                          /\ \A j \in (i + 1)..Len(t) : t[j] \in Whitespace
         IN  SubSeq(t, first, last)

\* A fold over a long sequence is written by halving its range, and an
\* intermediate result is bound as the one element of a set: TLC's stack
\* does not hold a recursion as deep as a page is long.

\* "".join(pieces[lo..hi])
RECURSIVE JoinRange(_, _, _)
JoinRange(pieces, lo, hi) ==
    IF lo > hi THEN <<>>
    ELSE IF lo = hi THEN pieces[lo]
    ELSE LET mid == (lo + hi) \div 2
         IN  JoinRange(pieces, lo, mid) \o JoinRange(pieces, mid + 1, hi)

(***************************************************************************)
(* build_database.py, step 2: RecursiveCharacterTextSplitter(              *)
(*     chunk_size=1000, chunk_overlap=200, length_function=len)            *)
(* with the splitter's defaults: separators ["\n\n", "\n", " ", ""],       *)
(* keep_separator=True (a separator stays at the start of the piece that   *)
(* follows it, and pieces are merged with the empty string), and           *)
(* strip_whitespace=True.                                                  *)
(***************************************************************************)
chunk_size == 1000
chunk_overlap == 200

Separators == << <<NL, NL>>, <<NL>>, <<SP>>, <<>> >>

\* re.search(separator, text)
Occurs(text, sep, i) ==
    /\ i >= 1
    /\ i + Len(sep) - 1 <= Len(text)
    /\ SubSeq(text, i, i + Len(sep) - 1) = sep

Contains(text, sep) == \E i \in 1..Len(text) : Occurs(text, sep, i)

\* re.split takes the leftmost occurrences that do not overlap
RECURSIVE IsMatch(_, _, _)
IsMatch(text, sep, i) ==
    /\ Occurs(text, sep, i)
    /\ \A j \in (i - Len(sep) + 1)..(i - 1) : ~IsMatch(text, sep, j)

\* the elements of a set of integers in increasing order
SortedSeq(S) ==
    [k \in 1..Cardinality(S) |->
        CHOOSE x \in S : Cardinality({y \in S : y < x}) = k - 1]

\* _split_text_with_regex(text, separator, keep_separator=True):
\* the pieces between separators, each separator kept at the start of the
\* piece that follows it, empty pieces dropped; list(text) for "".
SplitKeep(text, sep) ==
    IF sep = <<>>
    THEN [i \in 1..Len(text) |-> <<text[i]>>]
    ELSE LET starts == (IF Len(text) > 0 THEN {1} ELSE {})
                           \cup {i \in 1..Len(text) : IsMatch(text, sep, i)}
             s      == SortedSeq(starts)
             n      == Len(s)
         IN  [k \in 1..n |->
                 SubSeq(text, s[k], IF k < n THEN s[k + 1] - 1 ELSE Len(text))]

\* TextSplitter._join_docs with separator "": None is the empty sequence of
\* chunks, a text is a sequence of one chunk
JoinDocs(current_doc) ==
    LET text == Strip(JoinRange(current_doc, 1, Len(current_doc)))
    IN  IF text = <<>> THEN <<>> ELSE <<text>>

\* a merge that carries nothing over from one chunk to the next
PopStepNoOverlap(st, len) ==
    IF st.total > 0
    THEN [st EXCEPT !.total = st.total - Len(st.current_doc[1]),
                    !.current_doc = Tail(st.current_doc)]
    ELSE st

\* one round of the while loop of _merge_splits (separator_len = 0)
PopStep(st, len) ==
    IF \/ st.total > chunk_overlap
       \/ (st.total + len > chunk_size /\ st.total > 0)
    THEN [st EXCEPT !.total = st.total - Len(st.current_doc[1]),
                    !.current_doc = Tail(st.current_doc)]
    ELSE st

\* the while loop: n rounds, n at least the number of pieces it can pop
RECURSIVE PopWhile(_, _, _)
PopWhile(st, len, n) ==
    IF n <= 0 THEN st
    ELSE IF n = 1 THEN PopStep(st, len)
    ELSE CHOOSE r \in {PopWhile(half, len, n - (n \div 2)) :
                          half \in {PopWhile(st, len, n \div 2)}} : TRUE

\* the body of the for loop of _merge_splits for the piece d: when d does
\* not fit, the current chunk is emitted and pieces are popped from its front
MergeStep(st, d) ==
    IF st.total + Len(d) > chunk_size /\ Len(st.current_doc) > 0
    THEN CHOOSE r \in
             {[kept EXCEPT !.docs = st.docs \o JoinDocs(st.current_doc),
                           !.current_doc = Append(kept.current_doc, d),
                           !.total = kept.total + Len(d)] :
                  kept \in {PopWhile(st, Len(d), Len(st.current_doc))}} : TRUE
    ELSE [st EXCEPT !.current_doc = Append(st.current_doc, d),
                    !.total = st.total + Len(d)]

RECURSIVE MergeRange(_, _, _, _)
MergeRange(st, splits, lo, hi) ==
    IF lo > hi THEN st
    ELSE IF lo = hi THEN MergeStep(st, splits[lo])
    ELSE CHOOSE r \in {MergeRange(left, splits, (lo + hi) \div 2 + 1, hi) :
                          left \in {MergeRange(st, splits, lo, (lo + hi) \div 2)}} : TRUE

\* TextSplitter._merge_splits(splits, "")
MergeSplits(splits) ==
    LET st == MergeRange([docs |-> <<>>, current_doc |-> <<>>, total |-> 0],
                         splits, 1, Len(splits))
    IN  st.docs \o JoinDocs(st.current_doc)

\* the separator _split_text picks: the first one of the list that is ""
\* or occurs in the text (the last one when none does)
RECURSIVE PickSeparator(_, _, _)
PickSeparator(text, seps, i) ==
    IF i > Len(seps) THEN [sep |-> seps[Len(seps)], rest |-> <<>>]
    ELSE IF seps[i] = <<>> THEN [sep |-> <<>>, rest |-> <<>>]
    ELSE IF Contains(text, seps[i])
         THEN [sep |-> seps[i], rest |-> SubSeq(seps, i + 1, Len(seps))]
         ELSE PickSeparator(text, seps, i + 1)

\* RecursiveCharacterTextSplitter._split_text(text, separators); st is the
\* state of its for loop over the pieces: final_chunks and _good_splits
RECURSIVE SplitText(_, _)
RECURSIVE SplitRange(_, _, _, _, _)
SplitStep(st, s, rest) ==
    IF Len(s) < chunk_size
    THEN [st EXCEPT !.good = Append(st.good, s)]
    ELSE LET flushed == IF st.good # <<>>
                        THEN st.final \o MergeSplits(st.good)
                        ELSE st.final
         IN  [final |-> flushed \o (IF rest = <<>> THEN <<s>> ELSE SplitText(s, rest)),
              good  |-> <<>>]

SplitRange(st, splits, rest, lo, hi) ==
    IF lo > hi THEN st
    ELSE IF lo = hi THEN SplitStep(st, splits[lo], rest)
    ELSE CHOOSE r \in {SplitRange(left, splits, rest, (lo + hi) \div 2 + 1, hi) :
                          left \in {SplitRange(st, splits, rest, lo, (lo + hi) \div 2)}} : TRUE

SplitText(text, seps) ==
    LET pick   == PickSeparator(text, seps, 1)
        splits == SplitKeep(text, pick.sep)
        st     == SplitRange([final |-> <<>>, good |-> <<>>], splits, pick.rest,
                             1, Len(splits))
    IN  IF st.good # <<>> THEN st.final \o MergeSplits(st.good) ELSE st.final

\* text_splitter.split_text(page_content)
split_text(text) == SplitText(text, Separators)


(***************************************************************************)
(* The corpus directory and what build_database.py loads from it           *)
(***************************************************************************)
docs_path == "course_materials"
db_path == "vectordb"

\* The contents course_materials/ can have: files with their pages' text.
\* A file PyPDFLoader cannot read (password-protected) has readable FALSE.
File(name, ext, readable, pages) ==
    [name |-> name, ext |-> ext, readable |-> readable, pages |-> pages]

EmptyDir   == <<File("notes.txt", "txt", TRUE, <<>>)>>
SmallDir   == <<File("lec1.pdf", "pdf", TRUE, <<Rep("a", 5)>>)>>
TwoDir     == <<File("lec1.pdf", "pdf", TRUE, <<Rep("b", 3), <<>>, Rep("c", 4)>>),
                File("lec2.pdf", "pdf", TRUE, <<Rep("d", 2)>>)>>
BlankDir   == <<File("scan.pdf", "pdf", TRUE, <<<<>>, <<SP, NL>>>>)>>
LockedDir  == <<File("lec1.pdf", "pdf", TRUE, <<Rep("a", 5)>>),
                File("locked.pdf", "pdf", FALSE, <<>>)>>
LectureDir == <<File("lec3.pdf", "pdf", TRUE,
                     <<Rep("e", 299), Rep("f", 300), Rep("g", 301), Rep("h", 320)>>),
                File("lec4.pdf", "pdf", TRUE, <<Rep("i", 20)>>)>>

\* A corpus is named by a number.
Corpus == <<SmallDir, TwoDir, BlankDir, LockedDir, LectureDir>>
CorpusIds == 0..Len(Corpus)
Dir(c) == IF c = 0 THEN EmptyDir ELSE Corpus[c]

\* list(Path(docs_path).glob("*.pdf"))
pdf_files(dir) == {i \in 1..Len(dir) : dir[i].ext = "pdf"}

\* PyPDFLoader: one Document per page, tagged with the file's path and the
\* 0-based page index
LoadPdf(f) ==
    [i \in 1..Len(f.pages) |->
        [page_content |-> f.pages[i],
         metadata     |-> [source |-> <<docs_path, f.name>>, page |-> i - 1]]]

RECURSIVE LoadFiles(_, _)
LoadFiles(dir, i) ==
    IF i > Len(dir) THEN <<>>
    ELSE (IF dir[i].ext = "pdf" THEN LoadPdf(dir[i]) ELSE <<>>) \o LoadFiles(dir, i + 1)

\* DirectoryLoader(docs_path, glob="*.pdf", loader_cls=PyPDFLoader).load()
LoaderFails(dir) == \E i \in pdf_files(dir) : ~dir[i].readable
LoaderLoad(dir) == LoadFiles(dir, 1)

\* TextSplitter.create_documents: every chunk of a page carries a copy of
\* the page's metadata
ChunksOfPage(doc) ==
    LET texts == split_text(doc.page_content)
    IN  [k \in 1..Len(texts) |->
            [page_content |-> texts[k], metadata |-> doc.metadata]]

\* text_splitter.split_documents(documents)
RECURSIVE split_documents_from(_, _)
split_documents_from(documents, i) ==
    IF i > Len(documents) THEN <<>>
    ELSE ChunksOfPage(documents[i]) \o split_documents_from(documents, i + 1)

split_documents(documents) == split_documents_from(documents, 1)

\* The two files of a saved index.  index.faiss holds one vector per chunk:
\* the corpus they embed and their number.  index.pkl holds the docstore:
\* the chunks, in the order of the vectors.
FaissFile(c, cs) == [corpus |-> c, n |-> Len(cs)]
PklFile(c, cs) == [corpus |-> c, docs |-> cs]
NoFaiss == FaissFile(0, <<>>)
NoPkl == PklFile(0, <<>>)


(***************************************************************************)
(* State                                                                   *)
(***************************************************************************)
VARIABLES
    disk,       \* the index directory vectordb/: whether it exists, and its
                \* two files
    apiKey,     \* os.getenv("OPENAI_API_KEY") of the process
    vectordb,   \* RAGSystem.vectordb
    qa_chain,   \* RAGSystem.qa_chain
    last,       \* the last call on the RAGSystem and how it ended
    pcB,        \* where the process running build_database() stands
    building,   \* the corpus that build found in course_materials/, and the
                \* chunks it made of it
    buildRet,   \* how the last run of build_database() ended
    lastOk,     \* the corpus of the last run that saved its index (0: none)
    quiz,       \* the last call of MCQGenerator.generate_quiz and its result
    documents,  \* the pages handed to text_splitter.split_documents
    chunks,     \* the chunks it returned
    pcS,        \* "loaded" before the split, "split" after it
    session_state, \* st.session_state of app.py: rag, initialized and
                   \* current_question; vectordb and qa_chain are then the
                   \* attributes of the RAGSystem in session_state.rag
    env_exists, \* os.path.exists(".env")
    rag_ok,     \* initialize() has returned on the RAGSystem in
                \* session_state.rag
    ui          \* the last button pressed and what its script run did

ragVars   == <<vectordb, qa_chain, last>>
buildVars == <<pcB, building, buildRet, lastOk>>
chunkVars == <<documents, chunks, pcS>>
appVars   == <<session_state, env_exists, rag_ok, ui>>
vars == <<disk, apiKey, vectordb, qa_chain, last, pcB, building, buildRet,
          lastOk, quiz, documents, chunks, pcS, session_state, env_exists,
          rag_ok, ui>>

(***************************************************************************)
(* Exceptions: the type raised and its message                             *)
(***************************************************************************)
Raise(type, msg) == [type |-> type, msg |-> msg]
NoErr == Raise("", "")
\* rag_system.py line 31
DatabaseNotFound ==
    Raise("Exception", "Database not found at vectordb. Run build_database.py first!")
\* rag_system.py line 67
ApiKeyNotFound == Raise("Exception", "OPENAI_API_KEY not found in .env file!")
\* rag_system.py line 105
NotInitialized == Raise("Exception", "System not initialized! Call initialize() first.")
\* FAISS.load_local on a directory that lacks one of the two files
LoadFailed == Raise("RuntimeError", "could not open the index files")
\* self.vectordb.as_retriever with self.vectordb None
NoneHasNoRetriever ==
    Raise("AttributeError", "'NoneType' object has no attribute 'as_retriever'")
\* self.qa_chain(...) with self.qa_chain None
NoneNotCallable == Raise("TypeError", "'NoneType' object is not callable")
\* the docstore of index.pkl has no entry for a vector of index.faiss
DocstoreMiss == Raise("KeyError", "index_to_docstore_id")
\* the generation capability is unreachable or answers with an error
GenerationFailed == Raise("APIError", "generation capability unavailable")

(***************************************************************************)
(* RAGSystem (rag_system.py)                                               *)
(***************************************************************************)
\* the values of OPENAI_API_KEY: unset, set to the empty string, set
KeyUnset == "None"
ApiKeys == {KeyUnset, "", "sk-or-v1-key"}

\* None, and a FAISS object loaded from the two files
NoIndex == [set |-> FALSE, faiss |-> NoFaiss, pkl |-> NoPkl]
LoadedIndex(f, p) == [set |-> TRUE, faiss |-> f, pkl |-> p]
\* None, and a RetrievalQA chain over a retriever of the index vdb
NoChain == [set |-> FALSE, retriever |-> NoIndex]
ChainOver(vdb) == [set |-> TRUE, retriever |-> vdb]

NoValue == [question |-> "", answer |-> "", sources |-> <<>>]
\* what the RetrievalQA chain returned: result and source_documents
ChainResult(text, docs) == [result |-> text, source_documents |-> docs]
NoResult == ChainResult("", <<>>)
\* A call: the method, its argument, whether it returned ("ok") or raised,
\* the exception, the value returned, whether it searched the index and
\* called the generation capability, and what the chain returned to it.
\* tick changes with every call.
Outcome(op, arg, status, err, value, retrieved, generated, result) ==
    [op |-> op, arg |-> arg, status |-> status, err |-> err, value |-> value,
     retrieved |-> retrieved, generated |-> generated, result |-> result]
Failed(op, arg, err, retrieved, generated) ==
    Outcome(op, arg, "raised", err, NoValue, retrieved, generated, NoResult)
Done(op, err) ==
    Outcome(op, "", IF err = NoErr THEN "ok" ELSE "raised", err, NoValue,
            FALSE, FALSE, NoResult)
NoCall == Outcome("", "", "", NoErr, NoValue, FALSE, FALSE, NoResult) @@ [tick |-> FALSE]

\* RAGSystem.load_database: the error raised and self.vectordb afterwards
LoadDatabase(d, vdb) ==
    IF ~d.dir
    THEN [err |-> DatabaseNotFound, vectordb |-> vdb]
    ELSE IF d.faiss = NoFaiss \/ d.pkl = NoPkl
    THEN [err |-> LoadFailed, vectordb |-> vdb]
    ELSE [err |-> NoErr, vectordb |-> LoadedIndex(d.faiss, d.pkl)]

\* a test "if api_key is None" in place of "if not api_key"
ApiKeyIsNone(key) == key = KeyUnset

\* "if not api_key"
ApiKeyMissing(key) == key = KeyUnset \/ key = ""

\* RAGSystem.setup_qa_chain: the error raised and self.qa_chain afterwards
SetupQaChain(key, vdb, chain) ==
    IF ApiKeyMissing(key)
    THEN [err |-> ApiKeyNotFound, qa_chain |-> chain]
    ELSE IF ~vdb.set
    THEN [err |-> NoneHasNoRetriever, qa_chain |-> chain]
    ELSE [err |-> NoErr, qa_chain |-> ChainOver(vdb)]

\* RAGSystem.initialize: load_database(), then setup_qa_chain()
Initialize(d, key, vdb, chain) ==
    LET l == LoadDatabase(d, vdb)
        s == SetupQaChain(key, l.vectordb, chain)
    IN  IF l.err # NoErr
        THEN [err |-> l.err, vectordb |-> l.vectordb, qa_chain |-> chain]
        ELSE [err |-> s.err, vectordb |-> l.vectordb, qa_chain |-> s.qa_chain]

\* search_kwargs={"k": 4}
top_k == 4

Min(a, b) == IF a < b THEN a ELSE b

\* What the retriever's similarity search can return for some question: the
\* positions of min(k, n) different vectors of index.faiss, nearest first.
Retrievals(idx) ==
    LET n == idx.faiss.n
        m == Min(top_k, n)
    IN  {p \in [1..m -> 1..n] : \A i, j \in 1..m : i # j => p[i] # p[j]}

\* dict.get(key, default)
MetaGet(m, key, default) == IF key \in DOMAIN m THEN m[key] ELSE default

Ellipsis == <<".", ".", ".">>

\* a citation that carries the whole chunk text
SourceInfoWholeText(doc) ==
    [content |-> doc.page_content \o Ellipsis,
     source  |-> MetaGet(doc.metadata, "source", "Unknown"),
     page    |-> MetaGet(doc.metadata, "page", "N/A")]

\* the loop body of ask, lines 113-117
SourceInfo(doc) ==
    [content |-> Take(doc.page_content, 300) \o Ellipsis,
     source  |-> MetaGet(doc.metadata, "source", "Unknown"),
     page    |-> MetaGet(doc.metadata, "page", "N/A")]

\* a guard on self.vectordb in place of the guard on self.qa_chain
AskRejectsNoIndex(vdb, chain) == ~vdb.set

\* "if not self.qa_chain", line 104
AskRejects(vdb, chain) == ~chain.set

\* RAGSystem.ask(question), when the retriever returns the vectors at the
\* positions pick and the generation capability answers gen
Ask(vdb, chain, question, pick, gen) ==
    IF AskRejects(vdb, chain)
    THEN Failed("ask", question, NotInitialized, FALSE, FALSE)
    ELSE IF ~chain.set
    THEN Failed("ask", question, NoneNotCallable, FALSE, FALSE)
    ELSE LET docstore == chain.retriever.pkl.docs
         IN  IF \E i \in 1..Len(pick) : pick[i] > Len(docstore)
             THEN Failed("ask", question, DocstoreMiss, TRUE, FALSE)
             ELSE IF ~gen.ok
             THEN Failed("ask", question, GenerationFailed, TRUE, TRUE)
             ELSE LET result == ChainResult(gen.text,
                                            [i \in 1..Len(pick) |-> docstore[pick[i]]])
                      n == Len(result.source_documents)
                  IN  Outcome("ask", question, "ok", NoErr,
                              [question |-> question,
                               answer   |-> result.result,
                               sources  |-> [i \in 1..n |->
                                               SourceInfo(result.source_documents[i])]],
                              TRUE, TRUE, result)

\* an ask that drops the chain when it raises
SelfResetOnError(self, r) ==
    IF r.status = "raised" THEN [self EXCEPT !.qa_chain = NoChain] ELSE self

\* ask assigns no attribute of self
SelfAfterAsk(self, r) == self

Questions == {"What is backpropagation?", "Explain CNNs"}
GenOk(text) == [ok |-> TRUE, text |-> text]
GenError == [ok |-> FALSE, text |-> ""]
Generations ==
    {GenOk("Backpropagation computes gradients via the chain rule [lec1.pdf]."),
     GenError}

Record(r) == r @@ [tick |-> ~last.tick]

load_database ==
    LET r == LoadDatabase(disk, vectordb)
    IN  /\ vectordb' = r.vectordb
        /\ last' = Record(Done("load_database", r.err))
        /\ UNCHANGED <<qa_chain, disk, apiKey, buildVars, quiz, chunkVars, appVars>>

setup_qa_chain ==
    LET r == SetupQaChain(apiKey, vectordb, qa_chain)
    IN  /\ qa_chain' = r.qa_chain
        /\ last' = Record(Done("setup_qa_chain", r.err))
        /\ UNCHANGED <<vectordb, disk, apiKey, buildVars, quiz, chunkVars, appVars>>

initialize ==
    LET r == Initialize(disk, apiKey, vectordb, qa_chain)
    IN  /\ vectordb' = r.vectordb
        /\ qa_chain' = r.qa_chain
        /\ last' = Record(Done("initialize", r.err))
        /\ UNCHANGED <<disk, apiKey, buildVars, quiz, chunkVars, appVars>>

ask ==
    \E question \in Questions, gen \in Generations :
        \E pick \in Retrievals(qa_chain.retriever) :
            LET r    == Ask(vectordb, qa_chain, question, pick, gen)
                self == SelfAfterAsk([vectordb |-> vectordb, qa_chain |-> qa_chain], r)
            IN  /\ last' = Record(r)
                /\ vectordb' = self.vectordb
                /\ qa_chain' = self.qa_chain
                /\ UNCHANGED <<disk, apiKey, buildVars, quiz, chunkVars, appVars>>

(***************************************************************************)
(* build_database() (build_database.py), run by a process of its own       *)
(***************************************************************************)
NoDisk == [dir |-> FALSE, faiss |-> NoFaiss, pkl |-> NoPkl]
NotBuilding == [corpus |-> 0, chunks |-> <<>>]
NoBuild == [corpus |-> 0, status |-> "", value |-> "", error_printed |-> FALSE,
            saved |-> FALSE]
Returned(c, printed, saved) ==
    [corpus |-> c, status |-> "returned", value |-> "None",
     error_printed |-> printed, saved |-> saved]
\* an exception leaves build_database(); the handler of __main__ prints it
Raised(c) ==
    [corpus |-> c, status |-> "raised", value |-> "", error_printed |-> TRUE,
     saved |-> FALSE]

\* the contents of course_materials/ a run can find
BuildCorpora == {0, 1, 2, 3, 4}

\* steps 1 and 2: loader.load(), then text_splitter.split_documents
BuildChunks(c) == split_documents(LoaderLoad(Dir(c)))

\* a write that leaves an existing file as it is
KeepExisting(old, new) == IF old.corpus = 0 THEN new ELSE old

\* writing a file replaces what the file held
WriteFile(old, new) == new

\* lines 25-65: glob, load, split, embed, FAISS.from_documents.  Nothing is
\* written; FAISS.from_documents raises on an empty list of chunks.
BuildStart ==
    /\ pcB = "idle"
    /\ \E c \in BuildCorpora :
        IF pdf_files(Dir(c)) = {}
        THEN /\ buildRet' = Returned(c, TRUE, FALSE)
             /\ UNCHANGED <<pcB, building>>
        ELSE IF LoaderFails(Dir(c)) \/ BuildChunks(c) = <<>>
        THEN /\ buildRet' = Raised(c)
             /\ UNCHANGED <<pcB, building>>
        ELSE /\ pcB' = "makedirs"
             /\ building' = [corpus |-> c, chunks |-> BuildChunks(c)]
             /\ UNCHANGED buildRet
    /\ UNCHANGED <<disk, lastOk, apiKey, ragVars, quiz, chunkVars, appVars>>

\* line 70: os.makedirs(db_path, exist_ok=True)
BuildMakedirs ==
    /\ pcB = "makedirs"
    /\ disk' = [disk EXCEPT !.dir = TRUE]
    /\ pcB' = "write_faiss"
    /\ UNCHANGED <<building, buildRet, lastOk, apiKey, ragVars, quiz, chunkVars, appVars>>

\* line 71, vectordb.save_local(db_path): index.faiss is written first
BuildWriteFaiss ==
    /\ pcB = "write_faiss"
    /\ disk' = [disk EXCEPT
                    !.faiss = WriteFile(disk.faiss,
                                        FaissFile(building.corpus, building.chunks))]
    /\ pcB' = "write_pkl"
    /\ UNCHANGED <<building, buildRet, lastOk, apiKey, ragVars, quiz, chunkVars, appVars>>

\* line 71, vectordb.save_local(db_path): then index.pkl; lines 72-83
BuildWritePkl ==
    /\ pcB = "write_pkl"
    /\ disk' = [disk EXCEPT
                    !.pkl = WriteFile(disk.pkl,
                                      PklFile(building.corpus, building.chunks))]
    /\ pcB' = "idle"
    /\ buildRet' = Returned(building.corpus, FALSE, TRUE)
    /\ lastOk' = building.corpus
    /\ UNCHANGED <<building, apiKey, ragVars, quiz, chunkVars, appVars>>

\* line 71, inside save_local: each file is opened for writing, which
\* empties it, before its new contents are written.  Only a process that
\* reads the directory in between sees the empty file.
BuildTruncateFaiss ==
    /\ pcB = "write_faiss"
    /\ disk.faiss # NoFaiss
    /\ disk' = [disk EXCEPT !.faiss = NoFaiss]
    /\ UNCHANGED <<buildVars, apiKey, ragVars, quiz, chunkVars, appVars>>

BuildTruncatePkl ==
    /\ pcB = "write_pkl"
    /\ disk.pkl # NoPkl
    /\ disk' = [disk EXCEPT !.pkl = NoPkl]
    /\ UNCHANGED <<buildVars, apiKey, ragVars, quiz, chunkVars, appVars>>

(***************************************************************************)
(* MCQGenerator (mcq_generator.py)                                         *)
(***************************************************************************)
\* A Python value: its type and its content.  A dict is the sequence of its
\* items, an f-string the sequence of its parts.
Py(t, v) == [t |-> t, v |-> v]
PyStr(s) == Py("str", s)
PyInt(n) == Py("int", n)
PyList(xs) == Py("list", xs)
PyDict(items) == Py("dict", items)
Item(k, v) == [k |-> k, v |-> v]

\* The text of a response, as JSON reads it: punctuation, string literals,
\* numbers (their digits), the literals null/true/false, and bare words
\* (prose).
P(c) == [kind |-> "punct", v |-> c]
S(str) == [kind |-> "string", v |-> str]
N(n) == [kind |-> "number", v |-> n]
L(w) == [kind |-> "literal", v |-> w]
W(w) == [kind |-> "word", v |-> w]

Parsed(val, next) == [ok |-> TRUE, val |-> val, next |-> next]
\* json.JSONDecodeError
Malformed == [ok |-> FALSE, val |-> Py("NoneType", 0), next |-> 0]

IsPunct(toks, i, c) == i <= Len(toks) /\ toks[i] = P(c)

\* json's decoder: a value starting at token i
RECURSIVE ParseValue(_, _)
RECURSIVE ParseItems(_, _, _)
RECURSIVE ParseMembers(_, _, _)
ParseValue(toks, i) ==
    IF i > Len(toks) THEN Malformed
    ELSE IF toks[i].kind = "string" THEN Parsed(PyStr(toks[i].v), i + 1)
    ELSE IF toks[i].kind = "number" THEN Parsed(PyInt(toks[i].v), i + 1)
    ELSE IF toks[i].kind = "literal"
         THEN Parsed(Py(IF toks[i].v = "null" THEN "NoneType" ELSE "bool", 0), i + 1)
    ELSE IF toks[i] = P("[")
         THEN IF IsPunct(toks, i + 1, "]") THEN Parsed(PyList(<<>>), i + 2)
              ELSE ParseItems(toks, i + 1, <<>>)
    ELSE IF toks[i] = P("{")
         THEN IF IsPunct(toks, i + 1, "}") THEN Parsed(PyDict(<<>>), i + 2)
              ELSE ParseMembers(toks, i + 1, <<>>)
    ELSE Malformed

\* the items of a list, after "[" or ","
ParseItems(toks, i, acc) ==
    LET x == ParseValue(toks, i)
    IN  IF ~x.ok THEN Malformed
        ELSE IF IsPunct(toks, x.next, ",")
             THEN ParseItems(toks, x.next + 1, Append(acc, x.val))
        ELSE IF IsPunct(toks, x.next, "]")
             THEN Parsed(PyList(Append(acc, x.val)), x.next + 1)
        ELSE Malformed

\* the members of an object, after "{" or ","
ParseMembers(toks, i, acc) ==
    IF ~(i <= Len(toks) /\ toks[i].kind = "string" /\ IsPunct(toks, i + 1, ":"))
    THEN Malformed
    ELSE LET x == ParseValue(toks, i + 2)
         IN  IF ~x.ok THEN Malformed
             ELSE IF IsPunct(toks, x.next, ",")
                  THEN ParseMembers(toks, x.next + 1, Append(acc, Item(toks[i].v, x.val)))
             ELSE IF IsPunct(toks, x.next, "}")
                  THEN Parsed(PyDict(Append(acc, Item(toks[i].v, x.val))), x.next + 1)
             ELSE Malformed

\* json.loads(response): one value and nothing after it
json_loads(toks) ==
    LET x == ParseValue(toks, 1)
    IN  IF x.ok /\ x.next = Len(toks) + 1 THEN x ELSE Malformed

\* len(mcqs) raises TypeError unless mcqs is a list, a dict or a str
HasLen(val) == val.t \in {"list", "dict", "str"}
LenTypeError == Raise("TypeError", "object has no len()")

\* MCQGenerator._create_fallback_quiz(topic, num_questions)
FallbackMcq(topic) ==
    PyDict(<<Item("question", PyStr(<<"What is a key concept in ", topic, "?">>)),
             Item("options", PyDict(<<Item("A", PyStr(<<"Option A">>)),
                                      Item("B", PyStr(<<"Option B">>)),
                                      Item("C", PyStr(<<"Option C">>)),
                                      Item("D", PyStr(<<"Option D">>))>>)),
             Item("correct_answer", PyStr(<<"A">>)),
             Item("explanation",
                  PyStr(<<"This is a sample question. Try regenerating the quiz.">>))>>)

\* [mcq] * num_questions
create_fallback_quiz(topic, num_questions) ==
    PyList([i \in 1..num_questions |-> FallbackMcq(topic)])

\* A call of generate_quiz: its arguments, whether it returned or raised,
\* the exception, the value returned, whether that is the fallback quiz,
\* and the response the model gave (called: whether the model was called)
PyNone == Py("NoneType", 0)
QuizOutcome(topic, n, status, err, value, fallback, called, response) ==
    [topic |-> topic, num_questions |-> n, status |-> status, err |-> err,
     value |-> value, fallback |-> fallback, called |-> called,
     response |-> response]
NoQuiz == QuizOutcome("", 0, "", NoErr, PyNone, FALSE, FALSE, <<>>)

\* f"Explain {topic} in detail with key concepts"
QuizQuestion(topic) == <<"Explain ", topic, " in detail with key concepts">>

\* MCQGenerator.generate_quiz(topic, num_questions), when self.rag.ask ended
\* as asked and the model's response is resp
GenerateQuiz(topic, n, asked, resp) ==
    IF asked.status = "raised"
    THEN QuizOutcome(topic, n, "raised", asked.err, PyNone, FALSE, FALSE, <<>>)
    ELSE IF ~resp.ok
    THEN QuizOutcome(topic, n, "raised", GenerationFailed, PyNone, FALSE, FALSE, <<>>)
    ELSE LET mcqs == json_loads(resp.tokens)
         IN  IF ~mcqs.ok
             THEN QuizOutcome(topic, n, "ok", NoErr, create_fallback_quiz(topic, n),
                              TRUE, TRUE, resp.tokens)
             ELSE IF ~HasLen(mcqs.val)
             THEN QuizOutcome(topic, n, "raised", LenTypeError, PyNone,
                              FALSE, TRUE, resp.tokens)
             ELSE QuizOutcome(topic, n, "ok", NoErr, mcqs.val, FALSE, TRUE, resp.tokens)

\* the format the prompt asks for (lines 52-64): a list of objects with the
\* members question, options, correct_answer and explanation
McqKeys == {"question", "options", "correct_answer", "explanation"}
IsMcq(val) == val.t = "dict" /\ {val.v[i].k : i \in 1..Len(val.v)} = McqKeys
WellFormedQuiz(toks) ==
    LET mcqs == json_loads(toks)
    IN  /\ mcqs.ok
        /\ mcqs.val.t = "list"
        /\ \A i \in 1..Len(mcqs.val.v) : IsMcq(mcqs.val.v[i])

\* responses of the model
McqTokens(q) ==
    <<P("{"), S("question"), P(":"), S(q), P(","),
      S("options"), P(":"), P("{"), S("A"), P(":"), S("a"), P(","),
                                     S("B"), P(":"), S("b"), P(","),
                                     S("C"), P(":"), S("c"), P(","),
                                     S("D"), P(":"), S("d"), P("}"), P(","),
      S("correct_answer"), P(":"), S("A"), P(","),
      S("explanation"), P(":"), S("because"), P("}")>>
QuizTokens == <<P("[")>> \o McqTokens("Q1?") \o <<P(",")>> \o McqTokens("Q2?") \o <<P("]")>>

Response(toks) == [ok |-> TRUE, tokens |-> toks]
ResponseError == [ok |-> FALSE, tokens |-> <<>>]
Responses ==
    {Response(QuizTokens),
     Response(<<W("Here"), W("are"), W("the"), W("questions"), P(":")>> \o QuizTokens),
     Response(QuizTokens \o <<W("Good"), W("luck")>>),
     Response(SubSeq(QuizTokens, 1, Len(QuizTokens) - 4)),
     Response(<<>>),
     Response(<<N("42")>>),
     Response(<<L("null")>>),
     Response(<<S("Sure, here is your quiz")>>),
     Response(<<P("{"), S("questions"), P(":")>> \o QuizTokens \o <<P("}")>>),
     Response(<<P("["), S("Q1?"), P(","), S("Q2?"), P("]")>>),
     ResponseError}

Topics == {"Convolutional Neural Networks", "backpropagation"}
QuizSizes == {0, 1, 3}

generate_quiz ==
    \E topic \in Topics, n \in QuizSizes, gen \in Generations, resp \in Responses :
        \E pick \in Retrievals(qa_chain.retriever) :
            LET asked == Ask(vectordb, qa_chain, QuizQuestion(topic), pick, gen)
                self  == SelfAfterAsk([vectordb |-> vectordb, qa_chain |-> qa_chain], asked)
            IN  /\ last' = Record(asked)
                /\ quiz' = GenerateQuiz(topic, n, asked, resp)
                /\ vectordb' = self.vectordb
                /\ qa_chain' = self.qa_chain
                /\ UNCHANGED <<disk, apiKey, buildVars, chunkVars, appVars>>

(***************************************************************************)
(* The Streamlit session of app.py                                         *)
(***************************************************************************)
\* lines 18-20: rag = None, initialized = False; current_question is read
\* with a default of ''
NewSession == [rag |-> FALSE, initialized |-> FALSE, current_question |-> ""]

\* What one script run did: the button that started it, whether it called
\* rag.ask and with initialized at which value, and the error it showed
UiRun(button, called_ask, initialized, err) ==
    [button |-> button, called_ask |-> called_ask, initialized |-> initialized,
     err |-> err]
NoRun == UiRun("", FALSE, FALSE, NoErr)

\* no browser session
NoApp ==
    /\ session_state = NewSession
    /\ env_exists = FALSE
    /\ rag_ok = FALSE
    /\ ui = NoRun

\* RAGSystem() at line 53 raises when HuggingFaceEmbeddings cannot load
EmbeddingsFailed == Raise("OSError", "sentence-transformers/all-MiniLM-L6-v2")

\* lines 50-59, the button "Initialize System", enabled when vectordb/ and
\* .env exist: session_state.rag = RAGSystem(), then rag.initialize(), then
\* initialized = True and a rerun; an exception is shown and nothing else
\* is done.  built: whether RAGSystem() returned.
PressInitialize ==
    /\ disk.dir
    /\ env_exists
    /\ \E built \in BOOLEAN :
          IF ~built
          THEN /\ ui' = UiRun("initialize", FALSE, session_state.initialized,
                              EmbeddingsFailed)
               /\ UNCHANGED <<session_state, rag_ok, ragVars>>
          ELSE LET r == Initialize(disk, apiKey, NoIndex, NoChain)
               IN  /\ vectordb' = r.vectordb
                   /\ qa_chain' = r.qa_chain
                   /\ last' = Record(Done("initialize", r.err))
                   /\ rag_ok' = (r.err = NoErr)
                   /\ session_state' =
                          [session_state EXCEPT
                              !.rag = TRUE,
                              !.initialized = IF r.err = NoErr THEN TRUE ELSE @]
                   /\ ui' = UiRun("initialize", FALSE, session_state'.initialized,
                                  r.err)
    /\ UNCHANGED <<disk, apiKey, env_exists, buildVars, quiz, chunkVars>>

\* lines 136-145, the three quick-question buttons of the question interface
QuickQuestions ==
    {"Explain backpropagation in detail",
     "What are Convolutional Neural Networks?",
     "What is the difference between SGD and Adam optimizer?"}

PressQuick ==
    /\ session_state.initialized
    /\ \E q \in QuickQuestions :
          session_state' = [session_state EXCEPT !.current_question = q]
    /\ ui' = UiRun("quick", FALSE, session_state.initialized, NoErr)
    /\ UNCHANGED <<disk, apiKey, env_exists, rag_ok, ragVars, buildVars, quiz,
                   chunkVars>>

\* lines 164-166, the button "Clear" of the question interface
PressClear ==
    /\ session_state.initialized
    /\ session_state' = [session_state EXCEPT !.current_question = ""]
    /\ ui' = UiRun("clear", FALSE, session_state.initialized, NoErr)
    /\ UNCHANGED <<disk, apiKey, env_exists, rag_ok, ragVars, buildVars, quiz,
                   chunkVars>>

\* line 152: a question the user types
Placeholder == "How does gradient descent work?"

\* lines 159 and 169-191, the button "Ask" of the question interface, with
\* question the text of the text area (current_question unless the user
\* typed another): rag.ask(question) if the text is not empty, an exception
\* is shown
PressAsk ==
    /\ session_state.initialized
    /\ \E question \in {"", session_state.current_question, Placeholder} :
          IF question = ""
          THEN /\ ui' = UiRun("ask", FALSE, session_state.initialized, NoErr)
               /\ UNCHANGED ragVars
          ELSE \E gen \in Generations :
                 \E pick \in Retrievals(qa_chain.retriever) :
                    LET r    == Ask(vectordb, qa_chain, question, pick, gen)
                        self == SelfAfterAsk([vectordb |-> vectordb,
                                              qa_chain |-> qa_chain], r)
                    IN  /\ last' = Record(r)
                        /\ vectordb' = self.vectordb
                        /\ qa_chain' = self.qa_chain
                        /\ ui' = UiRun("ask", TRUE, session_state.initialized, r.err)
    /\ UNCHANGED <<disk, apiKey, env_exists, rag_ok, session_state, buildVars,
                   quiz, chunkVars>>

Init ==
    /\ disk = NoDisk
    /\ apiKey \in ApiKeys
    /\ vectordb = NoIndex
    /\ qa_chain = NoChain
    /\ last = NoCall
    /\ pcB = "idle"
    /\ building = NotBuilding
    /\ buildRet = NoBuild
    /\ lastOk = 0
    /\ quiz = NoQuiz
    /\ documents = <<>>
    /\ chunks = <<>>
    /\ pcS = ""
    /\ NoApp

Next ==
    \/ load_database
    \/ setup_qa_chain
    \/ initialize
    \/ ask
    \/ BuildStart
    \/ BuildMakedirs
    \/ BuildWriteFaiss
    \/ BuildWritePkl
    \/ BuildTruncateFaiss
    \/ BuildTruncatePkl

Spec == Init /\ [][Next]_vars

\* The quiz generator over a RAGSystem, the index of SmallDir on disk
BuiltDisk(c, cs) == [dir |-> TRUE, faiss |-> FaissFile(c, cs), pkl |-> PklFile(c, cs)]

InitBuilt(c) ==
    /\ disk = BuiltDisk(c, BuildChunks(c))
    /\ apiKey \in ApiKeys
    /\ vectordb = NoIndex
    /\ qa_chain = NoChain
    /\ last = NoCall
    /\ pcB = "idle"
    /\ building = [corpus |-> c, chunks |-> BuildChunks(c)]
    /\ buildRet = Returned(c, FALSE, TRUE)
    /\ lastOk = c
    /\ quiz = NoQuiz
    /\ documents = <<>>
    /\ chunks = <<>>
    /\ pcS = ""
    /\ NoApp

InitQuiz == InitBuilt(1)
NextQuiz == initialize \/ generate_quiz
SpecQuiz == InitQuiz /\ [][NextQuiz]_vars

\* Questions to a RAGSystem, the index of LectureDir on disk
InitQuery == InitBuilt(5)
NextQuery == initialize \/ ask
SpecQuery == InitQuery /\ [][NextQuery]_vars

\* The splitter of build_database.py over the pages of one PDF
MaxPages == 2

Words(n) == JoinRange([i \in 1..n |-> Rep("w", 9) \o <<SP>>], 1, n)
PageTexts ==
    {Rep("a", 1500),
     Rep("b", 400),
     <<SP>> \o Rep("c", 398) \o <<NL>>,
     <<SP, NL>>,
     Rep("d", 700) \o <<NL, NL>> \o Rep("e", 798),
     Words(150),
     Rep("f", 1000)}

PageLists == UNION {[1..n -> PageTexts] : n \in 1..MaxPages}

InitChunk ==
    /\ disk = NoDisk
    /\ apiKey = KeyUnset
    /\ vectordb = NoIndex
    /\ qa_chain = NoChain
    /\ last = NoCall
    /\ pcB = "idle"
    /\ building = NotBuilding
    /\ buildRet = NoBuild
    /\ lastOk = 0
    /\ quiz = NoQuiz
    /\ documents \in {LoadPdf(File("lec.pdf", "pdf", TRUE, pages)) : pages \in PageLists}
    /\ chunks = <<>>
    /\ pcS = "loaded"
    /\ NoApp

\* chunks = text_splitter.split_documents(documents)
SplitDocuments ==
    /\ pcS = "loaded"
    /\ chunks' = split_documents(documents)
    /\ pcS' = "split"
    /\ UNCHANGED <<disk, apiKey, ragVars, buildVars, quiz, documents, appVars>>

NextChunk == SplitDocuments
SpecChunk == InitChunk /\ [][NextChunk]_vars

(***************************************************************************)
(* Claims                                                                  *)
(***************************************************************************)
\* C1: an ask() on a RAGSystem whose qa_chain was never set up raises the
\* exception "System not initialized! Call initialize() first.", returns no
\* answer, and neither searches the index nor calls the generation
\* capability.
C1_AskBeforeSetupRejected ==
    (last.op = "ask" /\ ~qa_chain.set)
        => /\ last.status = "raised"
           /\ last.err = NotInitialized
           /\ last.value = NoValue
           /\ ~last.retrieved
           /\ ~last.generated

\* an ask rejected although load_database() had loaded the index
C1_Witness ==
    /\ last.op = "ask"
    /\ ~qa_chain.set
    /\ vectordb.set
    /\ last.err = NotInitialized

\* C2: an ask() on a system whose qa_chain is set changes neither vectordb
\* nor qa_chain, whether it returns or raises, and is never rejected as
\* not initialised; so after any number of failed questions the system is
\* still ready and the next question is processed.
C2_AskKeepsReady ==
    [][(last'.tick # last.tick /\ last'.op = "ask" /\ qa_chain.set)
          => /\ vectordb' = vectordb
             /\ qa_chain' = qa_chain
             /\ last'.err # NotInitialized]_vars

\* a question failed in the generation call and the system is still ready
C2_Witness ==
    /\ last.op = "ask"
    /\ last.status = "raised"
    /\ last.err = GenerationFailed
    /\ qa_chain.set
    /\ vectordb.set

\* C3, as the specification states it: with OPENAI_API_KEY unset or empty,
\* initialize() fails with the configuration-missing error, no chain is
\* set up, and every ask() fails with the not-initialised error.
C3_ConfigMissingReported ==
    apiKey \in {KeyUnset, ""}
        => /\ last.op = "initialize" => last.err = ApiKeyNotFound
           /\ ~qa_chain.set
           /\ last.op = "ask" => last.err = NotInitialized

\* C3, amended: with OPENAI_API_KEY unset or empty, initialize() raises; the
\* exception is the one of load_database() when the index directory is
\* missing or cannot be loaded, and "OPENAI_API_KEY not found in .env
\* file!" only when the index loads.  Both are plain Exceptions that differ
\* in their message.  No chain is ever set up and every ask() fails with the
\* not-initialised error.
C3_ConfigMissingAfterLoad ==
    [][(last'.tick # last.tick /\ apiKey \in {KeyUnset, ""})
          => /\ last'.op = "initialize"
                  => /\ last'.status = "raised"
                     /\ last'.err = IF ~disk.dir THEN DatabaseNotFound
                                    ELSE IF disk.faiss = NoFaiss \/ disk.pkl = NoPkl
                                    THEN LoadFailed
                                    ELSE ApiKeyNotFound
                     /\ last'.err # ApiKeyNotFound => vectordb' = vectordb
             /\ ApiKeyNotFound.type = DatabaseNotFound.type
             /\ ApiKeyNotFound.msg # DatabaseNotFound.msg
             /\ ~qa_chain'.set
             /\ last'.op = "ask" => last'.err = NotInitialized]_vars

\* initialize() loaded the index and then failed for the missing key
C3_Witness ==
    /\ apiKey \in {KeyUnset, ""}
    /\ last.op = "initialize"
    /\ last.err = ApiKeyNotFound
    /\ vectordb.set
    /\ ~qa_chain.set

\* C4, as the specification states it: a build over a folder with no PDF
\* ends as a failure of build_database() (an error raised to the caller),
\* and saves nothing.
C4_EmptyCorpusFails ==
    (buildRet.status # "" /\ pdf_files(Dir(buildRet.corpus)) = {})
        => /\ buildRet.status = "raised"
           /\ ~buildRet.saved

\* C5, as the specification states it: a reader that loads the index while
\* builds run finds either a whole index of one build or no index at all;
\* it never fails on, or loads, a partly written one.
C5_ReaderSeesWholeIndex ==
    /\ last.err # LoadFailed
    /\ vectordb.set => vectordb.faiss.corpus = vectordb.pkl.corpus

\* C6: when no build is running, the index on disk is exactly the index of
\* the documents of the last build that saved: the same files one build of
\* that folder alone writes, with nothing left of earlier builds, however
\* many builds ran before and whatever folders they read.
C6_LatestBuildOnly ==
    (pcB = "idle" /\ lastOk # 0)
        => disk = BuiltDisk(lastOk, BuildChunks(lastOk))

\* the index of TwoDir was on disk and loaded; a later build of SmallDir saved
C6_Witness ==
    /\ pcB = "idle"
    /\ lastOk = 1
    /\ buildRet.saved
    /\ vectordb.set
    /\ vectordb.faiss.corpus = 2
    /\ disk.faiss.corpus = 1

\* C10, as the specification states it: whenever qa_chain is set, vectordb
\* is set and the chain's retriever searches that same index.
C10_ChainOverCurrentIndex ==
    qa_chain.set => (vectordb.set /\ qa_chain.retriever = vectordb)

\* os.path.basename(source['source']), app.py line 183
Basename(path) == IF path = <<>> THEN <<>> ELSE <<path[Len(path)]>>

\* the chunks the chain retrieved for the last ask
Retrieved == last.result.source_documents

\* C7, as the specification states it: an ask() that succeeds returns the
\* generated text and one citation per retrieved chunk, in retrieval order,
\* whose content is the chunk text cut to 300 characters, whose source is
\* the basename of the source document and whose page is the chunk's page.
C7_CitationsTruncatedBasename ==
    (last.op = "ask" /\ last.status = "ok")
        => /\ last.value.answer = last.result.result
           /\ Len(last.value.sources) = Len(Retrieved)
           /\ \A i \in 1..Len(Retrieved) :
                  /\ last.value.sources[i].content = Take(Retrieved[i].page_content, 300)
                  /\ last.value.sources[i].source = Basename(Retrieved[i].metadata.source)
                  /\ last.value.sources[i].page = Retrieved[i].metadata.page

\* C7, amended: an ask() that succeeds returns the question, the generated
\* text and one citation per retrieved chunk (min(4, index size) of them),
\* in retrieval order; each citation's content is the first 300 characters
\* of the chunk text followed by "..." (so up to 303 characters, and the
\* whole text plus "..." for a chunk of at most 300), its source is the
\* source path as the loader recorded it (the folder included), and its
\* page is the chunk's page number.
C7_CitationsAsReturned ==
    (last.op = "ask" /\ last.status = "ok")
        => /\ last.value.question = last.arg
           /\ last.value.answer = last.result.result
           /\ Len(last.value.sources) = Len(Retrieved)
           /\ Len(Retrieved) = Min(top_k, Len(qa_chain.retriever.pkl.docs))
           /\ \A i \in 1..Len(Retrieved) :
                  LET text == Retrieved[i].page_content
                      cite == last.value.sources[i]
                  IN  /\ cite.content = SubSeq(text, 1, Min(300, Len(text))) \o <<".", ".", ".">>
                      /\ Len(cite.content) <= 303
                      /\ cite.source = Retrieved[i].metadata.source
                      /\ cite.source # Basename(cite.source)
                      /\ cite.page = Retrieved[i].metadata.page

\* four chunks retrieved, one longer than 300 characters and one shorter
C7_Witness ==
    /\ last.op = "ask"
    /\ last.status = "ok"
    /\ Len(last.value.sources) = 4
    /\ \E i \in 1..Len(Retrieved) : Len(Retrieved[i].page_content) > 300
    /\ \E i \in 1..Len(Retrieved) : Len(Retrieved[i].page_content) < 300

\* C8, as the specification states it: whenever the model's response is
\* not the structured list of questions the prompt asks for, generate_quiz
\* does not raise and returns the fallback quiz: num_questions copies of the
\* fallback question for the topic.
C8_MalformedGivesFallback ==
    (quiz.called /\ ~WellFormedQuiz(quiz.response))
        => /\ quiz.status = "ok"
           /\ quiz.fallback
           /\ quiz.value.t = "list"
           /\ Len(quiz.value.v) = quiz.num_questions
           /\ \A i \in 1..Len(quiz.value.v) : quiz.value.v[i] = FallbackMcq(quiz.topic)

\* the texts of the chunks tagged with page p (0-based), in order
PageChunks(p) ==
    LET of_page == SelectSeq(chunks, LAMBDA c : c.metadata.page = p)
    IN  [i \in 1..Len(of_page) |-> of_page[i].page_content]

HasSeparator(text) == \E i \in 1..Len(text) : text[i] \in {NL, SP}

IsPartOf(part, text) ==
    \E k \in 0..(Len(text) - Len(part)) : SubSeq(text, k + 1, k + Len(part)) = part

InitApp ==
    /\ disk = NoDisk
    /\ apiKey \in ApiKeys
    /\ vectordb = NoIndex
    /\ qa_chain = NoChain
    /\ last = NoCall
    /\ pcB = "idle"
    /\ building = NotBuilding
    /\ buildRet = NoBuild
    /\ lastOk = 0
    /\ quiz = NoQuiz
    /\ documents = <<>>
    /\ chunks = <<>>
    /\ pcS = ""
    /\ session_state = NewSession
    /\ env_exists \in BOOLEAN
    /\ rag_ok = FALSE
    /\ ui = NoRun

NextApp ==
    \/ PressInitialize
    \/ PressQuick
    \/ PressClear
    \/ PressAsk
    \/ BuildStart
    \/ BuildMakedirs
    \/ BuildWriteFaiss
    \/ BuildWritePkl
    \/ BuildTruncateFaiss
    \/ BuildTruncatePkl

SpecApp == InitApp /\ [][NextApp]_vars

\* C11, as the specification states it: session_state.initialized is True
\* only if session_state.rag holds a RAGSystem on which initialize() has
\* returned; after a press of "Initialize System" whose initialize() raised,
\* initialized is False; and rag.ask() is called only with initialized True.
C11_InitializedMeansReady ==
    /\ session_state.initialized => (session_state.rag /\ rag_ok)
    /\ (ui.button = "initialize" /\ ui.err \notin {NoErr, EmbeddingsFailed})
          => ~session_state.initialized
    /\ ui.called_ask => ui.initialized
=============================================================================
